---- MODULE Spec2Model ----
(***************************************************************************)
(* The `doo!` macro of src/lib.rs as a rewriting machine over token        *)
(* sequences, followed by the evaluation of the expression it emits under  *)
(* the three Pointed/Bind implementations of the crate (Option, Result and *)
(* the instruction counter IC of the test module).                         *)
(*                                                                         *)
(* A macro invocation doo!(tokens) is rewritten by the first rule of the   *)
(* macro whose matcher accepts the whole token sequence.  Every rule but   *)
(* the first and the last emits a Bind::bind call whose closure body is a  *)
(* further doo! invocation on the remaining tokens, so the expansion is a  *)
(* chain of rule applications; the state keeps the calls emitted so far    *)
(* (ctx), the tokens of the pending invocation (rest) and the innermost    *)
(* expression once the chain has ended (leaf).                             *)
(***************************************************************************)
EXTENDS Integers, Sequences, FiniteSets, TLC

VARIABLES block, rest, ctx, leaf, fired, pc, monad, result

vars == <<block, rest, ctx, leaf, fired, pc, monad, result>>

\* Number of `;`-terminated lines a block may hold before its last line.
MaxStmts == 2

-----------------------------------------------------------------------------
(* Tokens.                                                                 *)

\* identifiers usable as binders and as variables
Idents == {"a", "b"}

\* keywords an `ident` fragment also accepts
Keywords == {"return"}

\* literal value expressions
Literals == {"1", "2"}

\* opaque expressions of monadic type, each standing for one expression of
\* the tests: wrap(v) is Some(v) / Ok(v) / IC::new(v), fail(e) is
\* None / Err(e).
Wraps == {"wrap(1)", "wrap(2)", "wrap(a)", "wrap(b)"}
Fails == {"fail(e1)", "fail(e2)"}
Atoms == Literals \cup Wraps \cup Fails

Flatten(ls) ==
  LET RECURSIVE F(_)
      F(s) == IF s = <<>> THEN <<>> ELSE Head(s) \o F(Tail(s))
  IN F(ls)

-----------------------------------------------------------------------------
(* The `expr` and `ident` fragment matchers of macro_rules.                *)

\* A token at which an `expr` fragment may begin.  `_` may not (the crate
\* predates the 2024 edition), nor may `<-` or `;`.
CanBeginExpr(t) == t \in Idents \cup Atoms \cup {"return"}

\* $x:expr on the head of toks: the number of tokens of the longest
\* expression there (0 when none begins), and whether the parser reported
\* an error on the way.  `return` takes an operand when one follows; an
\* operand followed by `<-` is read as a comparison with a negated right
\* side and reported ("unexpected token: `<-`"), which fails the build.
RECURSIVE ParseExpr(_)
ParseExpr(toks) ==
  IF toks = <<>> \/ ~CanBeginExpr(Head(toks))
  THEN [len |-> 0, err |-> FALSE]
  ELSE IF Head(toks) = "return"
  THEN LET o == ParseExpr(Tail(toks))
       IN [len |-> 1 + o.len, err |-> o.err]
  ELSE IF Len(toks) >= 2 /\ toks[2] = "<-"
  THEN LET o == ParseExpr(SubSeq(toks, 3, Len(toks)))
       IN [len |-> 2 + o.len, err |-> TRUE]
  ELSE [len |-> 1, err |-> FALSE]

\* $binding:ident: any identifier or keyword, but not `_`.
IsIdentFragment(t) == t \in Idents \cup Keywords

Drop(toks, n) == SubSeq(toks, n + 1, Len(toks))
Take(toks, n) == SubSeq(toks, 1, n)

NoMatch == [m |-> "no"]
ParseError == [m |-> "error"]

\* mutant: the `;` after the expression is matched but left in the rest
ExprSemiRestKeepsSemi(toks) ==
  LET p == ParseExpr(toks)
  IN IF p.len = 0 THEN NoMatch
     ELSE IF p.err THEN ParseError
     ELSE IF Len(toks) > p.len /\ toks[p.len + 1] = ";"
     THEN [m |-> "yes", x |-> Take(toks, p.len), r |-> Drop(toks, p.len)]
     ELSE NoMatch

\* `$x:expr ; $($r:tt)*` on toks: the expression, then `;`, then anything.
ExprSemiRest(toks) ==
  LET p == ParseExpr(toks)
  IN IF p.len = 0 THEN NoMatch
     ELSE IF p.err THEN ParseError
     ELSE IF Len(toks) > p.len /\ toks[p.len + 1] = ";"
     THEN [m |-> "yes", x |-> Take(toks, p.len), r |-> Drop(toks, p.len + 1)]
     ELSE NoMatch

-----------------------------------------------------------------------------
(* The five rules of doo!: matcher and transcriber of each.                *)

\* mutant: (return $r:expr $(;)?), the trailing `;` optional
MatchReturnOptionalSemi(toks) ==
  IF toks /= <<>> /\ Head(toks) = "return"
  THEN LET p == ParseExpr(Tail(toks))
       IN IF p.len > 0 /\ ~p.err
             /\ \/ p.len + 1 = Len(toks)
                \/ p.len + 2 = Len(toks) /\ toks[Len(toks)] = ";"
          THEN [m |-> "yes", x |-> SubSeq(toks, 2, p.len + 1), r |-> <<>>]
          ELSE NoMatch
  ELSE NoMatch

\* (return $r:expr ;) => Pointed::point($r)
MatchReturn(toks) ==
  IF toks /= <<>> /\ Head(toks) = "return"
  THEN LET e == ExprSemiRest(Tail(toks))
       IN IF e.m = "yes" /\ e.r /= <<>> THEN NoMatch ELSE e
  ELSE NoMatch

\* (_ <- $x:expr ; $($r:tt)*) => Bind::bind($x, |_| { doo!($($r)*) })
MatchConstBind(toks) ==
  IF Len(toks) >= 2 /\ toks[1] = "_" /\ toks[2] = "<-"
  THEN ExprSemiRest(Drop(toks, 2))
  ELSE NoMatch

\* ($binding:ident <- $x:expr ; $($r:tt)*) => Bind::bind($x, |$binding| { doo!($($r)*) })
MatchBind(toks) ==
  IF Len(toks) >= 2 /\ IsIdentFragment(toks[1]) /\ toks[2] = "<-"
  THEN ExprSemiRest(Drop(toks, 2))
  ELSE NoMatch

\* mutant: ($e:expr ; $a:expr), a single expression after the statement
MatchConstExprThenExpr(toks) ==
  LET e == ExprSemiRest(toks)
  IN IF e.m = "yes" /\ ParseExpr(e.r) /= [len |-> Len(e.r), err |-> FALSE]
     THEN NoMatch
     ELSE e

\* ($e:expr ; $($a:tt)*) => Bind::bind($e, |_| doo!($($a)*))
MatchConstExpr(toks) == ExprSemiRest(toks)

\* ($a:expr) => $a
MatchPure(toks) ==
  LET p == ParseExpr(toks)
  IN IF p.len = 0 THEN NoMatch
     ELSE IF p.err THEN ParseError
     ELSE IF p.len = Len(toks) THEN [m |-> "yes", x |-> toks, r |-> <<>>]
     ELSE NoMatch

\* mutant: the statement-expression rule listed before the two bind rules
RuleOrderFallbackFirst == <<"return", "const-expr", "const-bind", "bind", "pure">>

\* the rules in the order the macro lists them
RuleOrder == <<"return", "const-bind", "bind", "const-expr", "pure">>

Match(rule, toks) ==
  CASE rule = "return" -> MatchReturn(toks)
    [] rule = "const-bind" -> MatchConstBind(toks)
    [] rule = "bind" -> MatchBind(toks)
    [] rule = "const-expr" -> MatchConstExpr(toks)
    [] rule = "pure" -> MatchPure(toks)

\* macro_rules tries the rules in order: the first whose matcher accepts the
\* input is transcribed; a parse error inside a fragment ends the expansion
\* with that error; when no rule accepts, the invocation is rejected.
Classify(toks) ==
  LET RECURSIVE Try(_)
      Try(i) ==
        IF i > Len(RuleOrder) THEN [rule |-> "none", m |-> "no"]
        ELSE LET r == Match(RuleOrder[i], toks)
             IN IF r.m = "no" THEN Try(i + 1)
                ELSE IF r.m = "error" THEN [rule |-> "none", m |-> "error"]
                ELSE [rule |-> RuleOrder[i], m |-> "yes", x |-> r.x, r |-> r.r,
                      binding |-> IF RuleOrder[i] = "bind" THEN toks[1] ELSE "_"]
  IN Try(1)

\* What each rule emits: a bind call (the expression, the closure parameter,
\* whether the closure body is a braced block) or the innermost expression.

\* mutant: the return rule emits its expression without Pointed::point
ReturnEmitsBare(c) == [op |-> "expr", e |-> c.x]

\* Pointed::point($r)
ReturnEmits(c) == [op |-> "point", e |-> c.x]

\* Bind::bind($x, |_| { doo!($($r)*) })
ConstBindEmits(c) == [x |-> c.x, param |-> "_", braced |-> TRUE]

\* mutant: the bind rule's closure ignores its argument, |_| for |$binding|
BindEmitsDiscards(c) == [x |-> c.x, param |-> "_", braced |-> TRUE]

\* Bind::bind($x, |$binding| { doo!($($r)*) })
BindEmits(c) == [x |-> c.x, param |-> c.binding, braced |-> TRUE]

\* Bind::bind($e, |_| doo!($($a)*))
ConstExprEmits(c) == [x |-> c.x, param |-> "_", braced |-> FALSE]

\* $a
PureEmits(c) == [op |-> "expr", e |-> c.x]

NoLeaf == [op |-> "none", e |-> <<>>]
NoResult == [val |-> [tag |-> "none"], log |-> <<>>]

-----------------------------------------------------------------------------
(* The blocks the macro is invoked on.                                     *)

Binders == Idents \cup {"_"}
RhsExprs == {<<"wrap(1)">>, <<"wrap(2)">>, <<"wrap(a)">>, <<"fail(e1)">>,
             <<"fail(e2)">>, <<"return", "1">>}
Lines ==
  {<<b, "<-">> \o e \o <<";">> : b \in Binders, e \in RhsExprs}
  \cup {e \o <<";">> : e \in RhsExprs}
  \cup {<<"wrap(1)">>}
LastLines ==
  {<<"wrap(1)">>, <<"wrap(a)">>, <<"wrap(b)">>, <<"fail(e1)">>,
   <<"return", "a", ";">>, <<"return", "1", ";">>, <<"return", "a">>}
Blocks ==
  LET Pre == UNION {[1..n -> Lines] : n \in 0..MaxStmts}
  IN Pre \cup {p \o <<l>> : p \in Pre, l \in LastLines}

Init ==
  /\ block \in Blocks
  /\ rest = Flatten(block)
  /\ ctx = <<>>
  /\ leaf = NoLeaf
  /\ fired = <<>>
  /\ pc = "expanding"
  /\ monad = "none"
  /\ result = NoResult

-----------------------------------------------------------------------------
(* Expansion: one action per rule of the macro.                            *)

\* (return $r:expr ;) => { Pointed::point($r) }
Return ==
  /\ pc = "expanding"
  /\ LET c == Classify(rest)
     IN /\ c.rule = "return"
        /\ leaf' = ReturnEmits(c)
        /\ rest' = c.r
  /\ fired' = Append(fired, "return")
  /\ pc' = "expanded"
  /\ UNCHANGED <<block, ctx, monad, result>>

\* (_ <- $x:expr ; $($r:tt)*) => { Bind::bind($x, |_| { doo!($($r)*) }) }
ConstBind ==
  /\ pc = "expanding"
  /\ LET c == Classify(rest)
     IN /\ c.rule = "const-bind"
        /\ ctx' = Append(ctx, ConstBindEmits(c))
        /\ rest' = c.r
  /\ fired' = Append(fired, "const-bind")
  /\ UNCHANGED <<block, leaf, pc, monad, result>>

\* ($binding:ident <- $x:expr ; $($r:tt)*) => { Bind::bind($x, |$binding| { doo!($($r)*) }) }
Bind ==
  /\ pc = "expanding"
  /\ LET c == Classify(rest)
     IN /\ c.rule = "bind"
        /\ ctx' = Append(ctx, BindEmits(c))
        /\ rest' = c.r
  /\ fired' = Append(fired, "bind")
  /\ UNCHANGED <<block, leaf, pc, monad, result>>

\* ($e:expr ; $($a:tt)*) => { Bind::bind($e, |_| doo!($($a)*)) }
ConstExpr ==
  /\ pc = "expanding"
  /\ LET c == Classify(rest)
     IN /\ c.rule = "const-expr"
        /\ ctx' = Append(ctx, ConstExprEmits(c))
        /\ rest' = c.r
  /\ fired' = Append(fired, "const-expr")
  /\ UNCHANGED <<block, leaf, pc, monad, result>>

\* ($a:expr) => { $a }
Pure ==
  /\ pc = "expanding"
  /\ LET c == Classify(rest)
     IN /\ c.rule = "pure"
        /\ leaf' = PureEmits(c)
        /\ rest' = c.r
  /\ fired' = Append(fired, "pure")
  /\ pc' = "expanded"
  /\ UNCHANGED <<block, ctx, monad, result>>

\* no rule accepts the pending invocation (or a fragment failed to parse):
\* the compiler reports the error and nothing is produced
Reject ==
  /\ pc = "expanding"
  /\ Classify(rest).rule = "none"
  /\ pc' = "rejected"
  /\ UNCHANGED <<block, rest, ctx, leaf, fired, monad, result>>

\* the whole expansion of doo!(toks): the rules applied until the chain ends
\* or an invocation is rejected
RECURSIVE Expansion(_)
Expansion(toks) ==
  LET c == Classify(toks)
      Under(frame) ==
        LET r == Expansion(c.r)
        IN [pc |-> r.pc, ctx |-> <<frame>> \o r.ctx, leaf |-> r.leaf]
  IN CASE c.rule = "none" -> [pc |-> "rejected", ctx |-> <<>>, leaf |-> NoLeaf]
       [] c.rule = "return" -> [pc |-> "expanded", ctx |-> <<>>, leaf |-> ReturnEmits(c)]
       [] c.rule = "pure" -> [pc |-> "expanded", ctx |-> <<>>, leaf |-> PureEmits(c)]
       [] c.rule = "const-bind" -> Under(ConstBindEmits(c))
       [] c.rule = "bind" -> Under(BindEmits(c))
       [] c.rule = "const-expr" -> Under(ConstExprEmits(c))

\* the emitted expression as a tree: each bind call holds, in its closure,
\* everything emitted after it
Nest(frames, inner) ==
  LET RECURSIVE N(_)
      N(i) == IF i > Len(frames) THEN inner
              ELSE [op |-> "sequence", x |-> frames[i].x,
                    param |-> frames[i].param, body |-> N(i + 1)]
  IN N(1)

OutTree ==
  Nest(ctx, IF leaf.op = "point" THEN [op |-> "lift", e |-> leaf.e]
            ELSE [op |-> leaf.op, e |-> leaf.e])

-----------------------------------------------------------------------------
(* Evaluation of the emitted expression.                                   *)

Monads == {"Option", "Result", "IC"}

None == [tag |-> "None"]
Some(a) == [tag |-> "Some", v |-> a]
Ok(a) == [tag |-> "Ok", v |-> a]
Err(e) == [tag |-> "Err", e |-> e]

\* IC::new
ICNew(value) == [count |-> 1, value |-> value]

\* impl Pointed for Option, Result, IC
OptionPoint(a) == Some(a)
ResultPoint(a) == Ok(a)
ICPoint(a) == ICNew(a)

Point(m, a) ==
  CASE m = "Option" -> OptionPoint(a)
    [] m = "Result" -> ResultPoint(a)
    [] m = "IC" -> ICPoint(a)

\* the variables a closure sees: the enclosing ones and its own parameter
Extend(env, param, v) ==
  IF param = "_" THEN env
  ELSE [y \in DOMAIN env \cup {param} |-> IF y = param THEN v ELSE env[y]]

\* a value expression: a literal or a variable
ValueOf(tok, env) ==
  CASE tok = "1" -> 1
    [] tok = "2" -> 2
    [] OTHER -> env[tok]

\* a monadic expression of the tests, at type m
Denote(m, tok, env) ==
  CASE tok = "wrap(1)" -> IF m = "Option" THEN Some(1) ELSE IF m = "Result" THEN Ok(1) ELSE ICNew(1)
    [] tok = "wrap(2)" -> IF m = "Option" THEN Some(2) ELSE IF m = "Result" THEN Ok(2) ELSE ICNew(2)
    [] tok = "wrap(a)" -> IF m = "Option" THEN Some(env["a"]) ELSE IF m = "Result" THEN Ok(env["a"]) ELSE ICNew(env["a"])
    [] tok = "wrap(b)" -> IF m = "Option" THEN Some(env["b"]) ELSE IF m = "Result" THEN Ok(env["b"]) ELSE ICNew(env["b"])
    [] tok = "fail(e1)" -> IF m = "Option" THEN None ELSE Err("e1")
    [] tok = "fail(e2)" -> IF m = "Option" THEN None ELSE Err("e2")

\* variables an expression reads
Reads(tok) ==
  CASE tok = "wrap(a)" -> {"a"}
    [] tok = "wrap(b)" -> {"b"}
    [] tok \in Idents -> {tok}
    [] OTHER -> {}

\* the names bound by the closures enclosing position i of the chain
Scope(i) == {ctx[j].param : j \in 1..(i - 1)} \ {"_"}

\* The emitted expression type-checks at Bind/Pointed implementation m:
\* every bound expression and the innermost one have that monadic type (a
\* `return` expression or a plain value do not), point takes a plain value,
\* and every variable read is bound by an enclosing closure.
Typechecks(m) ==
  LET Monadic(e, i) ==
        /\ Len(e) = 1
        /\ e[1] \in Wraps \cup (IF m = "IC" THEN {} ELSE Fails)
        /\ Reads(e[1]) \subseteq Scope(i)
      Plain(e, i) ==
        /\ Len(e) = 1
        /\ e[1] \in Literals \cup Idents
        /\ Reads(e[1]) \subseteq Scope(i)
  IN /\ \A i \in 1..Len(ctx) : Monadic(ctx[i].x, i) /\ ctx[i].param \in Binders
     /\ \/ leaf.op = "expr" /\ Monadic(leaf.e, Len(ctx) + 1)
        \/ leaf.op = "point" /\ Plain(leaf.e, Len(ctx) + 1)

RECURSIVE EvalFrom(_, _, _), Call(_, _), OptionBind(_, _), ResultBind(_, _), ICBind(_, _)

\* mutant: the continuation is run whether or not self is Some
OptionBindEager(self, f) ==
  LET r == Call(f, IF self.tag = "Some" THEN self.v ELSE 0)
  IN IF self.tag = "Some" THEN r ELSE [val |-> None, log |-> r.log]

\* impl Bind for Option: self.and_then(f)
OptionBind(self, f) ==
  IF self.tag = "Some" THEN Call(f, self.v)
  ELSE [val |-> None, log |-> <<>>]

\* mutant: after an Err the continuation still runs and its error, if any,
\* replaces the earlier one
ResultBindLastError(self, f) ==
  IF self.tag = "Ok" THEN Call(f, self.v)
  ELSE LET r == Call(f, 0)
       IN [val |-> IF r.val.tag = "Err" THEN r.val ELSE Err(self.e), log |-> r.log]

\* impl Bind for Result: self.and_then(f)
ResultBind(self, f) ==
  IF self.tag = "Ok" THEN Call(f, self.v)
  ELSE [val |-> Err(self.e), log |-> <<>>]

\* mutant: IC { count: r.count, value: r.value }, the receiver's count lost
ICBindDropsCount(self, f) ==
  LET r == Call(f, self.value)
  IN [val |-> [count |-> r.val.count, value |-> r.val.value], log |-> r.log]

\* impl Bind for IC: let r = f(self.value); IC { count: self.count + r.count, value: r.value }
ICBind(self, f) ==
  LET r == Call(f, self.value)
  IN [val |-> [count |-> self.count + r.val.count, value |-> r.val.value],
      log |-> r.log]

\* a closure |param| doo!(...) called on v: its body is the chain from
\* position f.body on, evaluated with param bound to v
Call(f, v) == EvalFrom(f.body, Extend(f.env, f.param, v), f.m)

\* the emitted expression from position i of the chain on: the value it
\* evaluates to and the positions whose expression was evaluated, in order
\* (position Len(ctx) + 1 is the innermost expression)
EvalFrom(i, env, m) ==
  IF i > Len(ctx)
  THEN [val |-> IF leaf.op = "point" THEN Point(m, ValueOf(leaf.e[1], env))
                ELSE Denote(m, leaf.e[1], env),
        log |-> <<i>>]
  ELSE LET x == Denote(m, ctx[i].x[1], env)
           f == [body |-> i + 1, env |-> env, param |-> ctx[i].param, m |-> m]
           r == CASE m = "Option" -> OptionBind(x, f)
                  [] m = "Result" -> ResultBind(x, f)
                  [] m = "IC" -> ICBind(x, f)
       IN [val |-> r.val, log |-> <<i>> \o r.log]

EmptyEnv == [y \in {} |-> 0]

Evaluate(m) ==
  /\ pc = "expanded"
  /\ Typechecks(m)
  /\ monad' = m
  /\ result' = EvalFrom(1, EmptyEnv, m)
  /\ pc' = "evaluated"
  /\ UNCHANGED <<block, rest, ctx, leaf, fired>>

Next ==
  \/ Return
  \/ ConstBind
  \/ Bind
  \/ ConstExpr
  \/ Pure
  \/ Reject
  \/ \E m \in Monads : Evaluate(m)

-----------------------------------------------------------------------------
(* The block as the specification reads it: line by line.                  *)

Last(q) == q[Len(q)]

\* the statement form a line has in the notation's grammar
LineKind(l) ==
  IF Last(l) /= ";" THEN "tail"
  ELSE IF l[1] = "return" THEN "return"
  ELSE IF l[1] = "_" THEN "discard"
  ELSE IF Len(l) >= 2 /\ l[2] = "<-" THEN "bind"
  ELSE "expr-stmt"

\* the expression a line carries
LineExpr(l) ==
  CASE LineKind(l) = "tail" -> l
    [] LineKind(l) = "return" -> SubSeq(l, 2, Len(l) - 1)
    [] LineKind(l) \in {"discard", "bind"} -> SubSeq(l, 3, Len(l) - 1)
    [] LineKind(l) = "expr-stmt" -> SubSeq(l, 1, Len(l) - 1)

\* a block the grammar admits: terminated non-return statements, then a
\* tail expression or a return
WellFormed(b) ==
  /\ b /= <<>>
  /\ \A i \in 1..(Len(b) - 1) : LineKind(b[i]) \in {"bind", "discard", "expr-stmt"}
  /\ LineKind(Last(b)) \in {"tail", "return"}

\* the expansion the specification's rules give a well-formed block
RECURSIVE SpecTree(_)
SpecTree(b) ==
  LET l == Head(b)
      k == LineKind(l)
  IN CASE k = "return" -> [op |-> "lift", e |-> LineExpr(l)]
       [] k = "tail" -> [op |-> "expr", e |-> l]
       [] k = "bind" -> [op |-> "sequence", x |-> LineExpr(l), param |-> l[1],
                         body |-> SpecTree(Tail(b))]
       [] OTHER -> [op |-> "sequence", x |-> LineExpr(l), param |-> "_",
                    body |-> SpecTree(Tail(b))]

Expanded == pc \in {"expanded", "evaluated"}

\* Lexical scoping, read off the emitted chain: the value a variable has at
\* position i is the payload of the nearest enclosing bind of that name.
RECURSIVE RefVar(_, _), RefPayload(_, _)
RefVar(name, i) ==
  LET j == CHOOSE k \in 1..(i - 1) :
             /\ ctx[k].param = name
             /\ \A n \in (k + 1)..(i - 1) : ctx[n].param /= name
  IN RefPayload(ctx[j].x[1], j)
RefPayload(tok, i) ==
  CASE tok = "wrap(1)" -> 1
    [] tok = "wrap(2)" -> 2
    [] tok = "wrap(a)" -> RefVar("a", i)
    [] tok = "wrap(b)" -> RefVar("b", i)
RefPlain(tok, i) ==
  CASE tok = "1" -> 1
    [] tok = "2" -> 2
    [] OTHER -> RefVar(tok, i)

\* the value the innermost expression carries
RefLeaf ==
  IF leaf.op = "point" THEN RefPlain(leaf.e[1], Len(ctx) + 1)
  ELSE RefPayload(leaf.e[1], Len(ctx) + 1)

NoFailure == \A i \in 1..Len(ctx) : ctx[i].x[1] \in Wraps
Failing == {i \in 1..Len(ctx) : ctx[i].x[1] \in Fails}
FirstFailing == CHOOSE i \in Failing : \A j \in Failing : i <= j

-----------------------------------------------------------------------------
(* C1 *)

NamedBindsThenTail ==
  /\ Len(block) >= 2
  /\ \A i \in 1..(Len(block) - 1) : LineKind(block[i]) = "bind"
  /\ LineKind(Last(block)) = "tail"

\* C1: a block of named binds followed by a tail expression expands, without
\* rejection, to exactly the nested sequence calls sequence(E1, n1 ->
\* sequence(E2, n2 -> ... E)), each closure taking the bound name and
\* holding the expansion of all remaining statements; evaluated, a variable
\* has the value of the nearest enclosing binding of its name.
C1_BindNesting ==
  NamedBindsThenTail =>
    /\ pc /= "rejected"
    /\ Expanded => OutTree = SpecTree(block)
    /\ (pc = "evaluated" /\ monad = "Option" /\ NoFailure) =>
         result.val = IF leaf.e[1] \in Fails THEN None ELSE Some(RefLeaf)

\* `a <- wrap(1); a <- wrap(2); wrap(a)` evaluated: the inner `a` is read
C1_Witness ==
  /\ pc = "evaluated" /\ monad = "Option"
  /\ block = << <<"a", "<-", "wrap(1)", ";">>, <<"a", "<-", "wrap(2)", ";">>, <<"wrap(a)">> >>
  /\ result.val = Some(2)

-----------------------------------------------------------------------------
(* C2 *)

\* C2: `return e;` as the sole remaining statement is rewritten by the return
\* rule to lift(e) and nothing else, whatever was emitted before it; and a
\* well-formed block ending in `return e;` none of whose statements fails
\* evaluates to Some(e) under Option and Ok(e) under Result.
C2_ReturnLift ==
  /\ (pc = "expanding" /\ Len(rest) >= 3 /\ rest[1] = "return" /\ Last(rest) = ";"
        /\ ParseExpr(Tail(rest)) = [len |-> Len(rest) - 2, err |-> FALSE]) =>
       /\ Classify(rest).rule = "return"
       /\ Expansion(rest) =
            [pc |-> "expanded", ctx |-> <<>>,
             leaf |-> [op |-> "point", e |-> SubSeq(rest, 2, Len(rest) - 1)]]
  /\ (WellFormed(block) /\ LineKind(Last(block)) = "return" /\ Expanded) =>
       /\ leaf = [op |-> "point", e |-> LineExpr(Last(block))]
       /\ Len(ctx) = Len(block) - 1
  /\ (pc = "evaluated" /\ leaf.op = "point" /\ NoFailure) =>
       /\ monad = "Option" => result.val = Some(RefLeaf)
       /\ monad = "Result" => result.val = Ok(RefLeaf)

\* `a <- wrap(2); _ <- wrap(1); return a;` evaluated under Result
C2_Witness ==
  /\ pc = "evaluated" /\ monad = "Result"
  /\ block = << <<"a", "<-", "wrap(2)", ";">>, <<"_", "<-", "wrap(1)", ";">>, <<"return", "a", ";">> >>
  /\ leaf = [op |-> "point", e |-> <<"a">>]
  /\ result.val = Ok(2)

-----------------------------------------------------------------------------
(* C3 *)

Unbraced(frames) ==
  [i \in 1..Len(frames) |-> [x |-> frames[i].x, param |-> frames[i].param]]

\* the block with the discard-bind of line i written as a bare expression
Bare(i) == [block EXCEPT ![i] = LineExpr(block[i]) \o <<";">>]

\* `_ <- E;` where `E;` alone would be the return form, not a statement
\* expression: E a return expression and nothing after the line
SoleReturn(i) == i = Len(block) /\ Head(LineExpr(block[i])) = "return"

-----------------------------------------------------------------------------
(* C4 *)

\* C4: under Option, when a statement before the last is absent the block
\* evaluates to None, and exactly the statements up to the first absent one
\* were evaluated: nothing after it, whatever its form.
C4_OptionShortCircuit ==
  (pc = "evaluated" /\ monad = "Option" /\ Failing /= {}) =>
    /\ result.val = None
    /\ result.log = [i \in 1..FirstFailing |-> i]

\* an absent first statement with two statements and a tail after it
C4_Witness ==
  /\ pc = "evaluated" /\ monad = "Option"
  /\ Len(ctx) >= 2 /\ Failing /= {} /\ FirstFailing = 1
  /\ result.log = <<1>>

-----------------------------------------------------------------------------
(* C5 *)

\* C5: under the instruction counter, a block of N bind statements and a
\* final statement evaluates to count N + 1 and to the value of the final
\* statement's structure.
C5_CounterFold ==
  (pc = "evaluated" /\ monad = "IC") =>
    /\ result.val.count = Len(ctx) + 1
    /\ result.val.value = RefLeaf
    /\ result.log = [i \in 1..(Len(ctx) + 1) |-> i]

\* `a <- wrap(1); b <- wrap(2); wrap(b)`: value 2, count 3
C5_Witness ==
  /\ pc = "evaluated" /\ monad = "IC"
  /\ block = << <<"a", "<-", "wrap(1)", ";">>, <<"b", "<-", "wrap(2)", ";">>, <<"wrap(b)">> >>
  /\ result.val = [count |-> 3, value |-> 2]

-----------------------------------------------------------------------------
(* C6 *)

ReturnNotLast == \E i \in 1..(Len(block) - 1) : LineKind(block[i]) = "return"

\* C6: a block in which `return e;` is not the last statement is rejected at
\* expansion: no rule applies to it and no expression is produced.
C6_ReturnNotLastRejected == ReturnNotLast => ~Expanded

-----------------------------------------------------------------------------
(* C7 *)

ErrOf(tok) == IF tok = "fail(e1)" THEN "e1" ELSE "e2"

\* C7: under Result, a block with failing statements evaluates to the error
\* of the first failing one, unchanged, and nothing after that statement is
\* evaluated: later failures and the final expression do not contribute.
C7_FirstErrorWins ==
  (pc = "evaluated" /\ monad = "Result" /\ Failing /= {}) =>
    /\ result.val = Err(ErrOf(ctx[FirstFailing].x[1]))
    /\ result.log = [i \in 1..FirstFailing |-> i]

\* `a <- wrap(1); _ <- fail(e2); ...` with a later statement that fails
\* with e1: the result carries e2
C7_Witness ==
  /\ pc = "evaluated" /\ monad = "Result"
  /\ Len(ctx) >= 2
  /\ ctx[1].x = <<"fail(e2)">>
  /\ ctx[2].x = <<"fail(e1)">>
  /\ result.val = Err("e2")

-----------------------------------------------------------------------------
(* C8 *)

\* the priority order the specification states
Priority == <<"return", "const-bind", "bind", "const-expr", "pure">>

\* the pending invocation starts with `binder <- expr ;`
HeadBinds(binder) ==
  /\ Len(rest) >= 4
  /\ rest[1] = binder
  /\ rest[2] = "<-"
  /\ LET p == ParseExpr(Drop(rest, 2))
     IN p.len > 0 /\ ~p.err /\ Len(rest) >= p.len + 3 /\ rest[p.len + 3] = ";"

HeadExpr == Take(Drop(rest, 2), ParseExpr(Drop(rest, 2)).len)

\* C8: every expansion step applies the first rule, in the order return,
\* discard-bind, named-bind, statement-expression, tail, whose pattern the
\* pending tokens match, and only that one; `_ <- expr;` is always taken by
\* the discard rule and `name <- expr;` by the named-bind rule, which binds
\* name in the continuation, never by the statement-expression fallback.
C8_Priority ==
  [][pc = "expanding" =>
       /\ \A k \in 1..Len(Priority) :
            (Match(Priority[k], rest).m = "yes"
               /\ \A j \in 1..(k - 1) : Match(Priority[j], rest).m = "no") =>
              fired' = Append(fired, Priority[k])
       /\ HeadBinds("_") =>
            /\ fired' = Append(fired, "const-bind")
            /\ ctx' = Append(ctx, [x |-> HeadExpr, param |-> "_", braced |-> TRUE])
       /\ \A n \in Idents : HeadBinds(n) =>
            /\ fired' = Append(fired, "bind")
            /\ ctx' = Append(ctx, [x |-> HeadExpr, param |-> n, braced |-> TRUE])
       /\ pc' /= "rejected" => Len(fired') = Len(fired) + 1]_vars

\* a named bind and a discard bind both expanded by their own rules
C8_Witness ==
  /\ fired = <<"bind", "const-bind">>
  /\ ctx[1].param = "b"
  /\ ctx[2].param = "_"

-----------------------------------------------------------------------------
(* C9 *)

\* C9: the expansion of a well-formed block of n statements is never
\* rejected and never stuck; each rule application consumes exactly one
\* statement, so the pending tokens are the statements not yet consumed;
\* it ends after exactly n applications, the last one the tail or the return
\* rule and no earlier one, with one sequence call for each of the n - 1
\* terminated statements before it.
C9_Termination ==
  WellFormed(block) =>
    /\ pc /= "rejected"
    /\ Len(fired) <= Len(block)
    /\ rest = Flatten(SubSeq(block, Len(fired) + 1, Len(block)))
    /\ Len(ctx) = Cardinality({i \in 1..Len(fired) : i < Len(block)})
    /\ \A i \in 1..Len(fired) : fired[i] \in {"pure", "return"} <=> i = Len(block)
    /\ pc = "expanding" => Len(fired) < Len(block) /\ Classify(rest).rule /= "none"
    /\ Expanded => Len(fired) = Len(block) /\ Len(ctx) = Len(block) - 1

\* a three-statement block fully expanded in three rule applications
C9_Witness ==
  /\ pc = "expanded"
  /\ WellFormed(block)
  /\ Len(block) = 3
  /\ fired = <<"const-expr", "bind", "return">>

-----------------------------------------------------------------------------
(* C10 *)

RECURSIVE Lifts(_)
Lifts(t) ==
  IF t.op = "sequence" THEN Lifts(t.body)
  ELSE IF t.op = "lift" THEN 1 ELSE 0

\* C10: lift is emitted only by the return rule, which needs the trailing
\* `;`: when the last line is `return e` without it, the line is taken by
\* the tail rule and emitted unmodified, without lift; a block ending in a
\* tail expression has no lift; and the output of any block has at most one
\* lift, which is then its innermost expression.
C10_LiftOnlyByReturn ==
  Expanded =>
    /\ leaf.op = "point" <=> Last(fired) = "return"
    /\ \A i \in 1..(Len(fired) - 1) : fired[i] /= "return"
    /\ Lifts(OutTree) = (IF Last(fired) = "return" THEN 1 ELSE 0)
    /\ (WellFormed(block) /\ LineKind(Last(block)) = "tail") =>
         /\ Last(fired) = "pure"
         /\ leaf = [op |-> "expr", e |-> Last(block)]
         /\ Lifts(OutTree) = 0

\* `_ <- wrap(1); return a` expanded: the last line is emitted as it is
C10_Witness ==
  /\ pc = "expanded"
  /\ block = << <<"_", "<-", "wrap(1)", ";">>, <<"return", "a">> >>
  /\ leaf = [op |-> "expr", e |-> <<"return", "a">>]
  /\ fired = <<"const-bind", "pure">>

Spec == Init /\ [][Next]_vars
====
